---- MODULE Spec2Model ----
(***************************************************************************)
(* A model of jsonresume-theme-latex: the markup primitives, the field     *)
(* formatters, the section renderers and the composition pipeline          *)
(* (makeTheme and the render function it returns).                         *)
(*                                                                         *)
(* A string is a sequence of tokens.  Text that escape, indent or          *)
(* formatPhone look into is a sequence of one-character tokens; a literal  *)
(* of the source, a date or an error description is kept as one token      *)
(* unless its characters matter ("%", "\n", " ", "-", "\\").               *)
(***************************************************************************)
EXTENDS Naturals, Sequences, FiniteSets, TLC

VARIABLES objects, themes, call, result, calls

vars == <<objects, themes, call, result, calls>>

(***************************************************************************)
(* Bounds of the model.                                                    *)
(***************************************************************************)
MaxThemes == 2
MaxRecords == 3
MaxVarying == 1
MaxTextLen == 5
MaxPhoneLen == 11

(***************************************************************************)
(* JavaScript values.                                                      *)
(***************************************************************************)
\* The value of a property that is not there, where a string is expected.
Undefined == <<"<undefined>">>

\* obj.key
Get(obj, key) == IF key \in DOMAIN obj THEN obj[key] ELSE Undefined

\* obj.key is there (an array or an object, which is truthy even when empty)
Has(obj, key) == key \in DOMAIN obj

\* !!str for a string or undefined
Truthy(str) == str # Undefined /\ str # <<>>

\* `${str}`: the text a template literal substitutes
ToStr(str) == IF str = Undefined THEN <<"undefined">> ELSE str

RECURSIVE Join(_, _)
\* Array.prototype.join
Join(strs, sep) ==
  IF strs = <<>> THEN <<>>
  ELSE IF Len(strs) = 1 THEN strs[1]
  ELSE strs[1] \o sep \o Join(Tail(strs), sep)

RECURSIVE Split(_, _)
\* String.prototype.split on a one-character separator
Split(str, sep) ==
  IF \A i \in 1..Len(str) : str[i] # sep THEN <<str>>
  ELSE LET i == CHOOSE k \in 1..Len(str) :
                  str[k] = sep /\ \A j \in 1..(k - 1) : str[j] # sep
       IN <<SubSeq(str, 1, i - 1)>> \o Split(SubSeq(str, i + 1, Len(str)), sep)

\* Array.prototype.map
Map(arr, F(_)) == [i \in 1..Len(arr) |-> F(arr[i])]

NL == "\n"

(***************************************************************************)
(* Markup primitives.                                                      *)
(***************************************************************************)
RECURSIVE escapeFrom(_, _)
\* str.replace(/\n| - /g, ...) from position i on: leftmost match first,
\* the alternatives tried in order, the search resumed after the match.
escapeFrom(str, i) ==
  IF i > Len(str) THEN <<>>
  ELSE IF str[i] = NL
    THEN <<" ", "\\", "\\", " ">> \o escapeFrom(str, i + 1)
  ELSE IF i + 2 <= Len(str) /\ str[i] = " " /\ str[i + 1] = "-" /\ str[i + 2] = " "
    THEN <<" ", "-", "-", "-", " ">> \o escapeFrom(str, i + 3)
  ELSE <<str[i]>> \o escapeFrom(str, i + 1)

\* An escape that has the backslash among its escapes, as a complete set of
\* LaTeX escapes has.
escapeWithBackslash(str) ==
  IF ~Truthy(str) THEN <<>>
  ELSE escapeFrom([i \in 1..Len(str) |->
                     IF str[i] = "\\" THEN "\\textbackslash{}" ELSE str[i]], 1)

\* escape applied to each line of str, the newlines between them kept.
escapeKeepingNewlines(str) ==
  IF ~Truthy(str) THEN <<>>
  ELSE Join(Map(Split(str, NL), LAMBDA line : escapeFrom(line, 1)), <<NL>>)

escape(str) == IF ~Truthy(str) THEN <<>> ELSE escapeFrom(str, 1)

\* The two spaces put before every line, the empty ones too.
indentLineAlways(str) == <<" ", " ">> \o str

indentLine(str) == IF str = <<>> THEN <<>> ELSE <<" ", " ">> \o str

indent(code) == Join(Map(Split(code, NL), indentLine), <<NL>>)

braced(arg) == <<"{">> \o arg \o <<"}">>

\* useEnvironment with the end marker of the environment left out.
useEnvironmentUnclosed(env, code, args) ==
  <<"\\begin{", env, "}">> \o Join(Map(args, braced), <<>>) \o <<NL>>
    \o indent(code)

useEnvironment(env, code, args) ==
  <<"\\begin{", env, "}">> \o Join(Map(args, braced), <<>>) \o <<NL>>
    \o indent(code) \o <<NL>>
    \o <<"\\end{", env, "}">>

(***************************************************************************)
(* Field formatters.                                                       *)
(***************************************************************************)
\* phone.slice(from): the end index is not looked at.
SliceToEnd(str, from, to) == SubSeq(str, from + 1, Len(str))

\* phone.slice(from, to) for 0 <= from <= to
Slice(str, from, to) ==
  SubSeq(str, from + 1, IF to < Len(str) THEN to ELSE Len(str))

\* phone.slice(-n)
SliceLast(str, n) ==
  IF Len(str) <= n THEN str ELSE SubSeq(str, Len(str) - n + 1, Len(str))

\* phone.slice(0, -n) that leaves the sign of the country code out.
SliceButLastUnsigned(str, n) ==
  SelectSeq(IF Len(str) <= n THEN <<>> ELSE SubSeq(str, 1, Len(str) - n),
            LAMBDA c : c # "+")

\* phone.slice(0, -n)
SliceButLast(str, n) ==
  IF Len(str) <= n THEN <<>> ELSE SubSeq(str, 1, Len(str) - n)

formatPhone(phone) ==
  LET hasCountry == (Len(phone) > 0 /\ phone[1] = "+") \/ Len(phone) > 10
      country == IF hasCountry THEN SliceButLast(phone, 10) ELSE <<>>
      local == IF hasCountry THEN SliceLast(phone, 10) ELSE phone
      formatted == <<"(">> \o Slice(local, 0, 3) \o <<")", " ">>
                     \o Slice(local, 3, 6) \o <<"-", "-">> \o Slice(local, 6, 10)
  IN IF country # <<>> THEN country \o <<" ">> \o formatted ELSE formatted

PhoneChars == {"+", "0", "1", "2", "3", "4", "5", "6", "7", "8", "9"}

\* phone.replace(/[^+0-9]/g, '')
rawPhoneOf(phone) == SelectSeq(phone, LAMBDA c : c \in PhoneChars)

\* moment(date).format(DATE_FORMAT): the date-formatting collaborator.  A date
\* that is not given is read as the current time, now.
formatDate(date, now) ==
  <<"LL(">> \o (IF date = Undefined THEN now ELSE date) \o <<")">>

(***************************************************************************)
(* An optional array (a section of the resume, which may be absent).       *)
(***************************************************************************)
Absent == [def |-> FALSE]

Some(arr) == [def |-> TRUE, val |-> arr]

\* obj[key] for an array-valued property
GetArr(obj, key) == IF key \in DOMAIN obj THEN Some(obj[key]) ELSE Absent

(***************************************************************************)
(* Header and summary.                                                     *)
(***************************************************************************)
\* The location line emitted for any location that has an address.
headerLocationByAddress(basics) ==
  IF Has(basics, "location") /\ Truthy(Get(basics.location, "address"))
    THEN << <<"\\location{">> \o escape(basics.location.address)
              \o <<" ", "\\", "\\", " ">> \o escape(Get(basics.location, "city"))
              \o <<",", " ">> \o escape(Get(basics.location, "postalCode"))
              \o <<"}">> >>
    ELSE <<>>

headerLocation(basics) ==
  IF Has(basics, "location")
       /\ Truthy(Get(basics.location, "address"))
       /\ Truthy(Get(basics.location, "city"))
       /\ Truthy(Get(basics.location, "postalCode"))
    THEN << <<"\\location{">> \o escape(basics.location.address)
              \o <<" ", "\\", "\\", " ">> \o escape(basics.location.city)
              \o <<",", " ">> \o escape(basics.location.postalCode) \o <<"}">> >>
    ELSE <<>>

headerPhone(basics) ==
  IF Truthy(Get(basics, "phone"))
    THEN << <<"\\phone{">> \o rawPhoneOf(basics.phone) \o <<"}", "{">>
              \o formatPhone(rawPhoneOf(basics.phone)) \o <<"}">> >>
    ELSE <<>>

headerContents(basics) ==
  (IF Truthy(Get(basics, "name"))
     THEN << <<"\\name{">> \o escape(basics.name) \o <<"}">> >> ELSE <<>>)
  \o (IF Truthy(Get(basics, "label"))
        THEN << <<"\\personallabel{">> \o escape(basics.label) \o <<"}">> >> ELSE <<>>)
  \o headerLocation(basics)
  \o (IF Truthy(Get(basics, "email"))
        THEN << <<"\\email{">> \o basics.email \o <<"}">> >> ELSE <<>>)
  \o headerPhone(basics)
  \o (IF Truthy(Get(basics, "website"))
        THEN << <<"\\website{">> \o basics.website \o <<"}">> >> ELSE <<>>)

renderHeader(resume) ==
  IF ~Has(resume, "basics") THEN <<"%", " No header information found.">>
  ELSE useEnvironment("header", Join(headerContents(resume.basics), <<NL>>), <<>>)

\* renderSummary without its guard: the macro is emitted for an absent summary.
renderSummaryUnguarded(summary) == <<"\\summary{">> \o escape(summary) \o <<"}">>

renderSummary(summary) ==
  IF Truthy(summary) THEN <<"\\summary{">> \o escape(summary) \o <<"}">>
  ELSE <<"%", " Summary section omitted.">>

(***************************************************************************)
(* Section renderers.  Each takes the optional section array and the       *)
(* current time (read by the date formatter for a date that is not given). *)
(***************************************************************************)
\* The date range with an end date that is not given read as the current time,
\* as the start date is.
dateRangeUnguarded(rec, now) ==
  formatDate(Get(rec, "startDate"), now) \o <<"-", "-">>
    \o formatDate(Get(rec, "endDate"), now)

\* `${startDate}--${endDate}`
dateRange(rec, now) ==
  formatDate(Get(rec, "startDate"), now) \o <<"-", "-">>
    \o (IF Truthy(Get(rec, "endDate")) THEN formatDate(rec.endDate, now)
        ELSE <<"Present">>)

\* `\\href{${url}}{${escape(name || fallback)}}` or escape(name || fallback)
linked(rec, nameKey, fallback) ==
  LET label == escape(IF Truthy(Get(rec, nameKey)) THEN rec[nameKey] ELSE fallback)
  IN IF Truthy(Get(rec, "url"))
       THEN <<"\\href{">> \o rec.url \o <<"}", "{">> \o label \o <<"}">>
       ELSE label

\* x || ''
OrEmpty(str) == IF Truthy(str) THEN str ELSE <<>>

item(str) == <<"\\item", " ">> \o escape(str)

\* useEnvironment(env, items.map(item => `\\item ${escape(item)}`).join('\n'))
itemList(env, items) == useEnvironment(env, Join(Map(items, item), <<NL>>), <<>>)

renderJob(job, now) ==
  LET company == linked(job, "name", <<"Untitled">>)
                   \o (IF Truthy(Get(job, "description"))
                         THEN <<" ">> \o escape(job.description) ELSE <<>>)
      args == << escape(company),
                 escape(OrEmpty(Get(job, "position"))),
                 dateRange(job, now),
                 escape(OrEmpty(Get(job, "location"))) >>
      jobInfo ==
        (IF Truthy(Get(job, "summary"))
           THEN << <<"\\jobsummary{">> \o escape(job.summary) \o <<"}">> >> ELSE <<>>)
        \o (IF Has(job, "highlights")
              THEN << itemList("jobhighlights", job.highlights) >> ELSE <<>>)
  IN useEnvironment("job", Join(jobInfo, <<NL>>), args)

\* renderWork with the jobs in the reverse of the array's order.
renderWorkReversed(work, now) ==
  IF ~work.def THEN <<"%", " Work section omitted.">>
  ELSE useEnvironment("work",
         Join([i \in 1..Len(work.val) |->
                 renderJob(work.val[Len(work.val) + 1 - i], now)], <<NL>>), <<>>)

renderWork(work, now) ==
  IF ~work.def THEN <<"%", " Work section omitted.">>
  ELSE useEnvironment("work",
         Join(Map(work.val, LAMBDA job : renderJob(job, now)), <<NL>>), <<>>)

renderPosition(position, now) ==
  LET organization == linked(position, "organization", <<"Undisclosed">>)
                   \o (IF Truthy(Get(position, "description"))
                         THEN <<" ">> \o escape(position.description) ELSE <<>>)
      args == << escape(organization),
                 escape(OrEmpty(Get(position, "position"))),
                 dateRange(position, now),
                 escape(Get(position, "location")) >>
      positionInfo ==
        (IF Truthy(Get(position, "summary"))
           THEN << <<"\\positionsummary{">> \o escape(position.summary) \o <<"}">> >>
           ELSE <<>>)
        \o (IF Has(position, "highlights")
              THEN << itemList("positionhighlights", position.highlights) >> ELSE <<>>)
  IN useEnvironment("position", Join(positionInfo, <<NL>>), args)

renderVolunteer(volunteer, now) ==
  IF ~volunteer.def THEN <<"%", " Volunteer section omitted.">>
  ELSE useEnvironment("volunteer",
         Join(Map(volunteer.val, LAMBDA position : renderPosition(position, now)),
              <<NL>>), <<>>)

\* renderSchool with the courses environment left out for an empty array.
renderSchoolCoursesIfAny(school, now) ==
  LET degree == ToStr(Get(school, "studyType")) \o <<" ", "(">>
                  \o ToStr(Get(school, "area")) \o <<")">>
      gpa == IF Truthy(Get(school, "gpa"))
               THEN <<"GPA:", " ">> \o escape(school.gpa) ELSE <<>>
      args == << escape(OrEmpty(Get(school, "institution"))),
                 escape(degree),
                 dateRange(school, now),
                 escape(gpa) >>
      schoolInfo == IF Has(school, "courses") /\ school.courses # <<>>
                      THEN itemList("courses", school.courses) ELSE <<>>
  IN useEnvironment("school", schoolInfo, args)

renderSchool(school, now) ==
  LET degree == ToStr(Get(school, "studyType")) \o <<" ", "(">>
                  \o ToStr(Get(school, "area")) \o <<")">>
      gpa == IF Truthy(Get(school, "gpa"))
               THEN <<"GPA:", " ">> \o escape(school.gpa) ELSE <<>>
      args == << escape(OrEmpty(Get(school, "institution"))),
                 escape(degree),
                 dateRange(school, now),
                 escape(gpa) >>
      schoolInfo == IF Has(school, "courses")
                      THEN itemList("courses", school.courses) ELSE <<>>
  IN useEnvironment("school", schoolInfo, args)

renderEducation(education, now) ==
  IF ~education.def THEN <<"%", " Education section omitted.">>
  ELSE useEnvironment("education",
         Join(Map(education.val, LAMBDA school : renderSchool(school, now)),
              <<NL>>), <<>>)

\* renderAward with the awarder passed first and the title last.
renderAwardSwapped(award, now) ==
  LET args == << escape(OrEmpty(Get(award, "awarder"))),
                 formatDate(Get(award, "date"), now),
                 escape(OrEmpty(Get(award, "title"))) >>
      awardInfo == IF Truthy(Get(award, "summary"))
                     THEN <<"\\awardsummary{">> \o escape(award.summary) \o <<"}">>
                     ELSE <<>>
  IN useEnvironment("award", awardInfo, args)

renderAward(award, now) ==
  LET args == << escape(OrEmpty(Get(award, "title"))),
                 formatDate(Get(award, "date"), now),
                 escape(OrEmpty(Get(award, "awarder"))) >>
      awardInfo == IF Truthy(Get(award, "summary"))
                     THEN <<"\\awardsummary{">> \o escape(award.summary) \o <<"}">>
                     ELSE <<>>
  IN useEnvironment("award", awardInfo, args)

renderAwards(awards, now) ==
  IF ~awards.def THEN <<"%", " Awards section omitted.">>
  ELSE useEnvironment("awards",
         Join(Map(awards.val, LAMBDA award : renderAward(award, now)), <<NL>>), <<>>)

renderPublication(publication, now) ==
  LET args == << linked(publication, "name", <<"Untitled">>),
                 escape(OrEmpty(Get(publication, "publisher"))),
                 formatDate(Get(publication, "releaseDate"), now) >>
      publicationInfo ==
        IF Truthy(Get(publication, "summary"))
          THEN <<"\\publicationsummary{">> \o escape(publication.summary) \o <<"}">>
          ELSE <<>>
  IN useEnvironment("publication", publicationInfo, args)

renderPublications(publications, now) ==
  IF ~publications.def THEN <<"%", " Publications section omitted.">>
  ELSE useEnvironment("publications",
         Join(Map(publications.val,
                  LAMBDA publication : renderPublication(publication, now)),
              <<NL>>), <<>>)

\* let content = rec[nameKey]; if (rec[extraKey]) content += ` (${rec[extraKey]})`;
\* `\\item ${escape(content)}`
itemWithExtra(rec, nameKey, extraKey) ==
  LET content == IF Truthy(Get(rec, extraKey))
                   THEN ToStr(Get(rec, nameKey)) \o <<" ", "(">> \o rec[extraKey] \o <<")">>
                   ELSE Get(rec, nameKey)
  IN item(content)

\* renderSkills with an empty array taken for an absent one.
renderSkillsEmptyOmitted(skills, now) ==
  IF ~skills.def \/ skills.val = <<>> THEN <<"%", " Skills section omitted.">>
  ELSE useEnvironment("skills",
         Join(Map(skills.val, LAMBDA skill : itemWithExtra(skill, "name", "level")),
              <<NL>>), <<>>)

renderSkills(skills, now) ==
  IF ~skills.def THEN <<"%", " Skills section omitted.">>
  ELSE useEnvironment("skills",
         Join(Map(skills.val, LAMBDA skill : itemWithExtra(skill, "name", "level")),
              <<NL>>), <<>>)

renderLanguages(languages, now) ==
  IF ~languages.def THEN <<"%", " Languages section omitted.">>
  ELSE useEnvironment("languages",
         Join(Map(languages.val,
                  LAMBDA language : itemWithExtra(language, "language", "fluency")),
              <<NL>>), <<>>)

renderInterests(interests, now) ==
  IF ~interests.def THEN <<"%", " Interests section omitted.">>
  ELSE useEnvironment("interests",
         Join(Map(interests.val, LAMBDA interest : item(Get(interest, "name"))),
              <<NL>>), <<>>)

\* renderReference without the fallback for a name that is not given.
renderReferenceNoFallback(reference) ==
  <<"\\reference{">> \o escape(Get(reference, "name"))
    \o <<"}", " ">> \o escape(OrEmpty(Get(reference, "reference")))

renderReference(reference) ==
  <<"\\reference{">>
    \o escape(IF Truthy(Get(reference, "name")) THEN reference.name
              ELSE <<"Undisclosed name">>)
    \o <<"}", " ">> \o escape(OrEmpty(Get(reference, "reference")))

renderReferences(references, now) ==
  IF ~references.def THEN <<"%", " References section omitted.">>
  ELSE useEnvironment("references",
         Join(Map(references.val, renderReference), <<NL>>), <<>>)

renderProject(project, now) ==
  LET name == linked(project, "name", <<"Untitled">>)
      roles == IF Has(project, "roles") THEN Join(project.roles, <<",", " ">>) ELSE <<>>
      args == << name,
                 escape(roles),
                 dateRange(project, now),
                 escape(OrEmpty(Get(project, "entity"))) >>
      projectInfo ==
        (IF Truthy(Get(project, "description"))
           THEN << <<"\\projectsummary{">> \o escape(project.description) \o <<"}">> >>
           ELSE <<>>)
        \o (IF Has(project, "highlights")
              THEN << itemList("projecthighlights", project.highlights) >> ELSE <<>>)
  IN useEnvironment("project", Join(projectInfo, <<NL>>), args)

\* renderProjects without its guard: an absent array is rendered as an empty one.
renderProjectsUnguarded(projects, now) ==
  useEnvironment("projects",
    Join(Map(IF projects.def THEN projects.val ELSE <<>>,
             LAMBDA project : renderProject(project, now)),
         <<NL>>), <<>>)

renderProjects(projects, now) ==
  IF ~projects.def THEN <<"%", " Projects section omitted.">>
  ELSE useEnvironment("projects",
         Join(Map(projects.val, LAMBDA project : renderProject(project, now)),
              <<NL>>), <<>>)

(***************************************************************************)
(* The composition pipeline.  A function value is named by a string: the   *)
(* renderers of the module by their names, any other name is a function    *)
(* the caller supplied.                                                    *)
(***************************************************************************)
\* A caller-supplied renderer: some markup of its own, which tells whether it
\* was given data.
customRender(fn, given) ==
  <<"\\custom{", fn, "}", "{", (IF given THEN "data" ELSE "undefined"), "}">>

callHeader(fn, resume) ==
  IF fn = "renderHeader" THEN renderHeader(resume)
  ELSE customRender(fn, Has(resume, "basics"))

callSummary(fn, summary) ==
  IF fn = "renderSummary" THEN renderSummary(summary)
  ELSE customRender(fn, summary # Undefined)

callSection(fn, data, now) ==
  CASE fn = "renderWork" -> renderWork(data, now)
    [] fn = "renderVolunteer" -> renderVolunteer(data, now)
    [] fn = "renderEducation" -> renderEducation(data, now)
    [] fn = "renderAwards" -> renderAwards(data, now)
    [] fn = "renderPublications" -> renderPublications(data, now)
    [] fn = "renderSkills" -> renderSkills(data, now)
    [] fn = "renderLanguages" -> renderLanguages(data, now)
    [] fn = "renderInterests" -> renderInterests(data, now)
    [] fn = "renderReferences" -> renderReferences(data, now)
    [] fn = "renderProjects" -> renderProjects(data, now)
    [] OTHER -> customRender(fn, data.def)

defaultSections ==
  <<"work", "volunteer", "education", "awards", "publications",
    "skills", "languages", "interests", "references", "projects">>

defaultSectionOptions ==
  [awards |-> [render |-> "renderAwards"],
   education |-> [render |-> "renderEducation"],
   interests |-> [render |-> "renderInterests"],
   languages |-> [render |-> "renderLanguages"],
   projects |-> [render |-> "renderProjects"],
   publications |-> [render |-> "renderPublications"],
   references |-> [render |-> "renderReferences"],
   skills |-> [render |-> "renderSkills"],
   volunteer |-> [render |-> "renderVolunteer"],
   work |-> [render |-> "renderWork"]]

\* The value defaultOptions is initialized to.
defaultOptionsValue ==
  [documentClass |-> <<"article">>,
   preamble |-> <<>>,
   renderHeader |-> "renderHeader",
   renderSummary |-> "renderSummary",
   sectionOptions |-> defaultSectionOptions,
   sections |-> defaultSections]

\* Object.assign with the precedence the wrong way round: target's properties win.
ObjectAssignTargetWins(target, source) ==
  [k \in DOMAIN target \cup DOMAIN source |->
     IF k \in DOMAIN target THEN target[k] ELSE source[k]]

\* A merge that goes one level down: the entries of the source's sectionOptions
\* over the target's.
ObjectAssignDeep(target, source) ==
  [k \in DOMAIN target \cup DOMAIN source |->
     IF k \notin DOMAIN source THEN target[k]
     ELSE IF k = "sectionOptions" /\ k \in DOMAIN target
       THEN [section \in DOMAIN target[k] \cup DOMAIN source[k] |->
               IF section \in DOMAIN source[k] THEN source[k][section]
               ELSE target[k][section]]
     ELSE source[k]]

\* Object.assign(target, source): the own properties of source over target's
ObjectAssign(target, source) ==
  [k \in DOMAIN target \cup DOMAIN source |->
     IF k \in DOMAIN source THEN source[k] ELSE target[k]]

\* Properties every object literal inherits from Object.prototype: a lookup of
\* one of these names on sectionOptions finds a value that is no SectionOptions.
ObjectPrototypeKeys == {"constructor", "toString", "valueOf", "hasOwnProperty"}

\* The objects of the heap: objects[0] is defaultOptions, the others are the
\* allOptions objects the render functions captured.
defaultOptions == objects[0]

\* Object.assign(defaultOptions, options) with no clone: defaultOptions itself is
\* assigned to and is the object the render function captures.
assignToDefaults(objs, options) ==
  [objects |-> [objs EXCEPT ![0] = ObjectAssign(objs[0], options)],
   ref |-> 0]

\* Object.assign(defaultOptions, options), and a clone of the result captured.
assignThenClone(objs, options) ==
  LET ref == Cardinality(DOMAIN objs)
      allOptions == ObjectAssign(objs[0], options)
  IN [objects |-> [r \in DOMAIN objs \cup {ref} |-> allOptions], ref |-> ref]

\* const allOptions = Object.assign({ ...defaultOptions }, options): the heap
\* with the new object in it, and the reference to that object.
cloneAndAssign(objs, options) ==
  LET ref == Cardinality(DOMAIN objs)
      allOptions == ObjectAssign(objs[0], options)
  IN [objects |-> [r \in DOMAIN objs \cup {ref} |->
                     IF r = ref THEN allOptions ELSE objs[r]],
      ref |-> ref]

\* allOptions.sectionOptions[section]: "none" (undefined), "inherited" (a
\* property of Object.prototype, which has no render method) or the renderer.
sectionRenderer(sectionOptions, section) ==
  IF section \in DOMAIN sectionOptions THEN sectionOptions[section].render
  ELSE IF section \in ObjectPrototypeKeys THEN "inherited"
  ELSE "none"

\* The first section of the list whose lookup is not callable, or 0.
firstBadSection(allOptions) ==
  LET bad == {i \in 1..Len(allOptions.sections) :
                sectionRenderer(allOptions.sectionOptions, allOptions.sections[i])
                  = "inherited"}
  IN IF bad = {} THEN 0 ELSE CHOOSE i \in bad : \A j \in bad : i <= j

\* The renderers the sections.map(...) callback invokes for the first n sections.
sectionCalls(allOptions, n) ==
  SelectSeq([i \in 1..n |->
               sectionRenderer(allOptions.sectionOptions, allOptions.sections[i])],
            LAMBDA fn : fn # "none" /\ fn # "inherited")

\* renderOptions && renderOptions.render(resume[section]), as join('\n') reads
\* it: undefined is joined as the empty string.
sectionFragment(allOptions, resume, section, now) ==
  LET fn == sectionRenderer(allOptions.sectionOptions, section)
  IN IF fn = "none" THEN <<>> ELSE callSection(fn, GetArr(resume, section), now)

\* The template with the sections rendered in the reverse of the configured order.
documentReversed(allOptions, resume, now) ==
  <<"\\documentclass{">> \o allOptions.documentClass \o <<"}", NL>>
    \o allOptions.preamble \o <<NL>>
    \o <<"\\begin{document}", NL>>
    \o callHeader(allOptions.renderHeader, resume) \o <<NL>>
    \o callSummary(allOptions.renderSummary, Get(resume.basics, "summary")) \o <<NL>>
    \o Join([i \in 1..Len(allOptions.sections) |->
               sectionFragment(allOptions, resume,
                 allOptions.sections[Len(allOptions.sections) + 1 - i], now)],
            <<NL>>) \o <<NL>>
    \o <<"\\end{document}", NL>>

\* The template of the render function.
document(allOptions, resume, now) ==
  <<"\\documentclass{">> \o allOptions.documentClass \o <<"}", NL>>
    \o allOptions.preamble \o <<NL>>
    \o <<"\\begin{document}", NL>>
    \o callHeader(allOptions.renderHeader, resume) \o <<NL>>
    \o callSummary(allOptions.renderSummary, Get(resume.basics, "summary")) \o <<NL>>
    \o Join(Map(allOptions.sections,
                LAMBDA section : sectionFragment(allOptions, resume, section, now)),
            <<NL>>) \o <<NL>>
    \o <<"\\end{document}", NL>>

Threw(error, message) == [kind |-> "threw", error |-> error, message |-> message]

Returned(value) == [kind |-> "returned", value |-> value]

\* The template literal of the render function evaluated, its substitutions
\* from left to right: what it yields or throws, and the renderers invoked.
renderTemplate(allOptions, resume, now) ==
  IF ~Has(resume, "basics")
    THEN [result |-> Threw("TypeError",
                           <<"Cannot read property 'summary' of undefined">>),
          calls |-> <<allOptions.renderHeader>>]
  ELSE IF firstBadSection(allOptions) # 0
    THEN [result |-> Threw("TypeError", <<"renderOptions.render is not a function">>),
          calls |-> <<allOptions.renderHeader, allOptions.renderSummary>>
                      \o sectionCalls(allOptions, firstBadSection(allOptions) - 1)]
  ELSE [result |-> Returned(document(allOptions, resume, now)),
        calls |-> <<allOptions.renderHeader, allOptions.renderSummary>>
                    \o sectionCalls(allOptions, Len(allOptions.sections))]

\* The render function without the validation gate of version 0.1.2: validate's
\* report is not looked at.
renderFunctionUngated(allOptions, resume, errors, now) ==
  LET out == renderTemplate(allOptions, resume, now)
  IN [result |-> out.result, calls |-> <<"validate">> \o out.calls]

\* The render function makeTheme returns, called with allOptions captured:
\* what it returns or throws, and the collaborators it invoked, in order.
\* errors is what validate(resume) reports.
renderFunction(allOptions, resume, errors, now) ==
  IF errors # <<>>
    THEN [result |-> Threw("Error", <<"Invalid resume input: ">>
                                      \o Join(errors, <<",", " ">>)),
          calls |-> <<"validate">>]
  ELSE LET out == renderTemplate(allOptions, resume, now)
       IN [result |-> out.result, calls |-> <<"validate">> \o out.calls]

\* An assignment to a property of the resume, as in-place normalisation of
\* the phone number by the header renderer would make.
resumeWritesPhone(allOptions, resume, errors) ==
  IF errors = <<>> /\ Has(resume, "basics") /\ Truthy(Get(resume.basics, "phone"))
    THEN << [key |-> "basics",
             value |-> [resume.basics EXCEPT !.phone = rawPhoneOf(@)]] >>
    ELSE <<>>

\* The assignments a call of the render function makes to the properties of
\* the resume it is given: the pipeline and the renderers only read it (what
\* they push to are arrays of their own, and formatPhone rebinds its parameter).
resumeWrites(allOptions, resume, errors) == <<>>

RECURSIVE Written(_, _)
\* obj after the assignments to its properties, in order
Written(obj, writes) ==
  IF writes = <<>> THEN obj
  ELSE Written([k \in DOMAIN obj \cup {writes[1].key} |->
                  IF k = writes[1].key THEN writes[1].value ELSE obj[k]],
               Tail(writes))

(***************************************************************************)
(* The inputs the operations are called with.                              *)
(***************************************************************************)
sJane == <<"J", "a", "n", "e", " ", "D", "o", "e">>
sAcme == <<"A", "c", "m", "e">>
sDash == <<"a", " ", "-", " ", "b">>
sLines == <<"x", NL, "y">>
sUrl == <<"h", ":", "/", "/", "u">>
sUrlDash == <<"u", " ", "-", " ", "v">>
sPhone == <<"+", "1", " ", "(", "5", "5", "5", ")", " ", "5", "5", "5", "-",
            "1", "2", "3", "4">>

\* The current time the date formatter may read: the day of a call.
Clock == {<<"today">>, <<"tomorrow">>}

\* What validate(resume) may report.
ErrorLists == {<<>>, << <<"e1">> >>, << <<"e1">>, <<"e2">> >>}

Sections == {defaultSections[i] : i \in 1..Len(defaultSections)}

\* Three records of each section: one with every field, one with other
\* values and fewer fields (and a URL that holds " - " where the record type has
\* a URL), and one with no field at all.
SampleRecords ==
  [work |->
     << [name |-> sAcme, url |-> sUrl, description |-> sDash, position |-> <<"d", "e", "v">>,
         location |-> <<"N", "Y">>, startDate |-> <<"2018-01-01">>,
         endDate |-> <<"2019-01-01">>, summary |-> sLines,
         highlights |-> << <<"h", "1">>, <<"h", "2">>, sDash >>],
        [name |-> <<"B">>, url |-> sUrlDash, startDate |-> <<"2020-02-02">>,
         highlights |-> <<>>],
        [k \in {} |-> <<>>] >>,
   volunteer |->
     << [organization |-> sAcme, url |-> sUrl, description |-> <<"d">>,
         position |-> <<"p">>, location |-> <<"L">>, startDate |-> <<"2018-01-01">>,
         endDate |-> <<"2019-01-01">>, summary |-> sLines,
         highlights |-> << <<"h", "1">>, <<"h", "2">> >>],
        [organization |-> <<"B">>, url |-> sUrlDash, startDate |-> <<"2020-02-02">>],
        [k \in {} |-> <<>>] >>,
   education |->
     << [institution |-> sAcme, studyType |-> <<"B", "S">>, area |-> <<"C", "S">>,
         startDate |-> <<"2018-01-01">>, endDate |-> <<"2019-01-01">>,
         gpa |-> <<"4", ".", "0">>,
         courses |-> << <<"c", "1">>, <<"c", "2">>, <<"c", "3">> >>],
        [institution |-> <<"B">>, studyType |-> <<"M", "S">>, courses |-> <<>>],
        [k \in {} |-> <<>>] >>,
   awards |->
     << [title |-> sAcme, date |-> <<"2018-01-01">>, awarder |-> <<"w">>,
         summary |-> sLines],
        [title |-> <<"B">>],
        [k \in {} |-> <<>>] >>,
   publications |->
     << [name |-> sAcme, url |-> sUrl, publisher |-> <<"p">>,
         releaseDate |-> <<"2018-01-01">>, summary |-> sDash],
        [name |-> <<"B">>, url |-> sUrlDash],
        [k \in {} |-> <<>>] >>,
   skills |->
     << [name |-> sAcme, level |-> <<"h", "i">>],
        [name |-> <<"B">>],
        [k \in {} |-> <<>>] >>,
   languages |->
     << [language |-> sAcme, fluency |-> <<"o", "k">>],
        [language |-> <<"B">>],
        [k \in {} |-> <<>>] >>,
   interests |->
     << [name |-> sAcme],
        [name |-> sDash],
        [k \in {} |-> <<>>] >>,
   references |->
     << [name |-> sAcme, reference |-> sLines],
        [name |-> <<"B">>],
        [k \in {} |-> <<>>] >>,
   projects |->
     << [name |-> sAcme, url |-> sUrl, description |-> sDash,
         roles |-> << <<"r", "1">>, <<"r", "2">> >>, entity |-> <<"e">>,
         startDate |-> <<"2018-01-01">>, endDate |-> <<"2019-01-01">>,
         highlights |-> << <<"h", "1">>, <<"h", "2">> >>],
        [name |-> <<"B">>, url |-> sUrlDash, roles |-> <<>>, highlights |-> <<>>],
        [k \in {} |-> <<>>] >>]

\* The arrays of at most n sample records of a section, in every order.
RecordLists(section, n) ==
  UNION {[1..len -> {SampleRecords[section][i] : i \in 1..Len(SampleRecords[section])}] :
           len \in 0..n}

BasicsChoices ==
  {Absent,
   Some([name |-> sJane]),
   Some([name |-> sJane, summary |-> sLines]),
   Some([label |-> sDash, phone |-> sPhone,
         location |-> [address |-> sLines, city |-> <<"N", "Y">>]]),
   Some([name |-> sJane, label |-> sDash, email |-> <<"j", "@", "d">>,
         phone |-> sPhone, website |-> sUrl, summary |-> sDash,
         location |-> [address |-> sLines, city |-> <<"N", "Y">>,
                       postalCode |-> <<"1", "0">>]]),
   Some([k \in {} |-> <<>>])}

\* The resume with the given optional basics and the given sections.
Resume(basics, sections) ==
  [k \in DOMAIN sections \cup (IF basics.def THEN {"basics"} ELSE {}) |->
     IF k = "basics" THEN basics.val ELSE sections[k]]

\* A section as a profile names it: absent, an empty array, or its records.
ProfileSections(profile) ==
  [s \in {t \in Sections : profile[t] # "absent"} |->
     IF profile[s] = "empty" THEN <<>> ELSE SampleRecords[s]]

\* The profiles in which at most n sections differ from all the others.
Profiles(n) ==
  {p \in [Sections -> {"absent", "empty", "records"}] :
     \E base \in {"absent", "empty", "records"} :
       Cardinality({s \in Sections : p[s] # base}) <= n}

\* The preamble packaged with the module (the text of preamble.tex).
packagedPreamble == <<"\\usepackage{hyperref}", NL, "\\pagestyle{empty}">>

OptionKeys ==
  {"documentClass", "preamble", "renderHeader", "renderSummary", "sectionOptions",
   "sections"}

\* A value of the caller's own for each option.
callerOptions ==
  [documentClass |-> <<"moderncv">>,
   preamble |-> <<"\\usepackage{x}">>,
   renderHeader |-> "myHeader",
   renderSummary |-> "mySummary",
   sectionOptions |-> [work |-> [render |-> "myWork"],
                       hobbies |-> [render |-> "myHobbies"],
                       skills |-> [render |-> "renderSkills"]],
   sections |-> <<"skills", "hobbies", "work">>]

\* A section list that names a property of Object.prototype.
inheritedSections == [sections |-> <<"work", "toString", "skills">>]

\* makeTheme's argument: absent, or the options object with the caller's values
\* of the options in K, for each K of Ks.
ArgsOver(Ks) ==
  {Absent, Some(inheritedSections)}
    \cup {Some([k \in K |-> callerOptions[k]]) : K \in Ks}

\* Every subset of the options.
ThemeArgs == ArgsOver(SUBSET OptionKeys)

\* One option of three, or all of them.
PipelineArgs ==
  ArgsOver({{"documentClass"}, {"sections"}, {"sectionOptions"}, OptionKeys})

\* The resumes the render functions of the pipeline are called with.
PipelineResumes ==
  {Resume(Absent, [k \in {} |-> <<>>]),
   Resume(Some([name |-> sJane]), [k \in {} |-> <<>>]),
   Resume(Some([name |-> sJane, summary |-> sLines]),
          [work |-> SubSeq(SampleRecords.work, 1, 2),
           skills |-> <<>>,
           hobbies |-> << [name |-> <<"g", "o">>] >>])}

\* A resume with what validate reports for it: each resume as a valid one, and
\* two of them as invalid ones.
PipelineInputs ==
  {[resume |-> resume, errors |-> <<>>] : resume \in PipelineResumes}
    \cup {[resume |-> Resume(Some([name |-> sJane]), [k \in {} |-> <<>>]),
           errors |-> << <<"e1">> >>],
          [resume |-> Resume(Absent, [k \in {} |-> <<>>]),
           errors |-> << <<"e1">>, <<"e2">> >>]}

\* The resumes of the exported render function's calls.
DefaultResumes ==
  {Resume(basics, ProfileSections(profile)) :
     basics \in BasicsChoices, profile \in Profiles(MaxVarying)}

(***************************************************************************)
(* The state after the module is loaded: defaultOptions, and the exported  *)
(* render function, made by makeTheme({ preamble }).                       *)
(***************************************************************************)
loaded ==
  cloneAndAssign([r \in {0} |-> defaultOptionsValue], [preamble |-> packagedPreamble])

Loaded ==
  /\ objects = loaded.objects
  /\ themes = << [ref |-> loaded.ref, arg |-> Some([preamble |-> packagedPreamble])] >>
  /\ calls = <<>>
  /\ result = [kind |-> "none"]

Init ==
  /\ Loaded
  /\ call = [op |-> "load"]

(***************************************************************************)
(* makeTheme(options) and the render function it returns.                  *)
(***************************************************************************)
MakeTheme(arg) ==
  /\ Len(themes) <= MaxThemes
  /\ LET options == IF arg.def THEN arg.val ELSE defaultOptions
         made == cloneAndAssign(objects, options)
     IN /\ objects' = made.objects
        /\ themes' = Append(themes, [ref |-> made.ref, arg |-> arg])
  /\ call' = [op |-> "makeTheme", arg |-> arg]
  /\ result' = [kind |-> "theme", theme |-> Len(themes) + 1]
  /\ calls' = <<>>

Render(i, resume, errors, now) ==
  /\ LET out == renderFunction(objects[themes[i].ref], resume, errors, now)
     IN /\ result' = out.result
        /\ calls' = out.calls
  /\ call' = [op |-> "render", theme |-> i, resume |-> resume, errors |-> errors,
              now |-> now,
              after |-> Written(resume,
                                resumeWrites(objects[themes[i].ref], resume, errors))]
  /\ UNCHANGED <<objects, themes>>

Next ==
  \/ \E arg \in PipelineArgs : MakeTheme(arg)
  \/ \E i \in DOMAIN themes, input \in PipelineInputs, now \in Clock :
       Render(i, input.resume, input.errors, now)

Spec == Init /\ [][Next]_vars

(***************************************************************************)
(* The exported render function, applied to one resume.                    *)
(***************************************************************************)
InitDefault ==
  /\ Loaded
  /\ call \in {[op |-> "render", theme |-> 1, resume |-> resume, errors |-> errors,
                now |-> now, after |-> resume] :
                 resume \in DefaultResumes, errors \in ErrorLists, now \in Clock}

RenderExported ==
  /\ call.op = "render"
  /\ result.kind = "none"
  /\ LET out == renderFunction(objects[themes[call.theme].ref], call.resume,
                               call.errors, call.now)
     IN /\ result' = out.result
        /\ calls' = out.calls
  /\ call' = [call EXCEPT !.after =
                Written(@, resumeWrites(objects[themes[call.theme].ref],
                                        call.resume, call.errors))]
  /\ UNCHANGED <<objects, themes>>

NextDefault == RenderExported

SpecDefault == InitDefault /\ [][NextDefault]_vars

(***************************************************************************)
(* makeTheme, applied to one argument, and the render function it returned. *)
(***************************************************************************)
InitMerge ==
  /\ Loaded
  /\ call \in {[op |-> "makeTheme", arg |-> arg] : arg \in ThemeArgs}

MakeThemePending ==
  /\ call.op = "makeTheme"
  /\ result.kind = "none"
  /\ MakeTheme(call.arg)

RenderMade ==
  /\ call.op = "makeTheme"
  /\ result.kind = "theme"
  /\ \E input \in PipelineInputs, now \in Clock :
       Render(result.theme, input.resume, input.errors, now)

NextMerge == MakeThemePending \/ RenderMade

SpecMerge == InitMerge /\ [][NextMerge]_vars

(***************************************************************************)
(* An exported section renderer, applied to one optional array.            *)
(***************************************************************************)
SectionCalls(section) ==
  {[op |-> "section", section |-> section,
    fn |-> defaultSectionOptions[section].render, data |-> data, now |-> now] :
     data \in {Absent} \cup {Some(arr) : arr \in RecordLists(section, MaxRecords)},
     now \in Clock}

InitSections ==
  /\ Loaded
  /\ call \in UNION {SectionCalls(section) : section \in Sections}

CallSectionRenderer ==
  /\ call.op = "section"
  /\ result.kind = "none"
  /\ result' = Returned(callSection(call.fn, call.data, call.now))
  /\ calls' = <<call.fn>>
  /\ UNCHANGED <<objects, themes, call>>

\* The same renderer called once more on the same data, on a day of its own.
CallSectionRendererAgain ==
  /\ call.op = "section"
  /\ result.kind = "returned"
  /\ \E now \in Clock :
       /\ call' = [call EXCEPT !.now = now]
       /\ result' = Returned(callSection(call.fn, call.data, now))
  /\ calls' = <<call.fn>>
  /\ UNCHANGED <<objects, themes>>

NextSections == CallSectionRenderer \/ CallSectionRendererAgain

SpecSections == InitSections /\ [][NextSections]_vars

(***************************************************************************)
(* The earlier makeTheme (the non-validating TypeScript version, and       *)
(* src/index.js before it): the options are assigned to defaultOptions     *)
(* itself, and the render function neither validates nor looks whether a   *)
(* section has a renderer.  The resumes are ones the renderers of that     *)
(* version render as the later ones do: a name, a summary, no section.     *)
(***************************************************************************)
\* The value the earlier defaultOptions is initialized to.
earlierDefaultOptionsValue ==
  [documentClass |-> <<"article">>,
   preamble |-> <<>>,
   renderHeader |-> "renderHeader",
   renderSummary |-> "renderSummary",
   sectionOptions |-> defaultSectionOptions,
   sections |-> defaultSections]

\* const allOptions = Object.assign(defaultOptions, options): defaultOptions is
\* the target, and the object the render function captures.
earlierMakeTheme(objs, options) ==
  [objects |-> [objs EXCEPT ![0] = ObjectAssign(objs[0], options)],
   ref |-> 0]

\* The first section of the list with no entry in sectionOptions, or 0.
earlierFirstBadSection(allOptions) ==
  LET bad == {i \in 1..Len(allOptions.sections) :
                allOptions.sections[i] \notin DOMAIN allOptions.sectionOptions}
  IN IF bad = {} THEN 0 ELSE CHOOSE i \in bad : \A j \in bad : i <= j

\* The render function the earlier makeTheme returns, called with allOptions
\* captured.
earlierRenderFunction(allOptions, resume, now) ==
  IF ~Has(resume, "basics")
    THEN [result |-> Threw("TypeError",
                           <<"Cannot read property of undefined">>),
          calls |-> <<allOptions.renderHeader>>]
  ELSE IF earlierFirstBadSection(allOptions) # 0
    THEN [result |-> Threw("TypeError",
                           <<"Cannot read property 'render' of undefined">>),
          calls |-> <<allOptions.renderHeader, allOptions.renderSummary>>
                      \o sectionCalls(allOptions,
                                      earlierFirstBadSection(allOptions) - 1)]
  ELSE [result |-> Returned(document(allOptions, resume, now)),
        calls |-> <<allOptions.renderHeader, allOptions.renderSummary>>
                    \o sectionCalls(allOptions, Len(allOptions.sections))]

EarlierResumes ==
  {Resume(Absent, [k \in {} |-> <<>>]),
   Resume(Some([name |-> sJane]), [k \in {} |-> <<>>]),
   Resume(Some([name |-> sJane, summary |-> sLines]), [k \in {} |-> <<>>])}

InitEarlier ==
  /\ objects = [r \in {0} |-> earlierDefaultOptionsValue]
  /\ themes = <<>>
  /\ call = [op |-> "load"]
  /\ result = [kind |-> "none"]
  /\ calls = <<>>

MakeThemeEarlier(arg) ==
  /\ Len(themes) <= MaxThemes
  /\ LET options == IF arg.def THEN arg.val ELSE defaultOptions
         made == earlierMakeTheme(objects, options)
     IN /\ objects' = made.objects
        /\ themes' = Append(themes, [ref |-> made.ref, arg |-> arg])
  /\ call' = [op |-> "makeTheme", arg |-> arg]
  /\ result' = [kind |-> "theme", theme |-> Len(themes) + 1]
  /\ calls' = <<>>

RenderEarlier(i, resume, now) ==
  /\ LET out == earlierRenderFunction(objects[themes[i].ref], resume, now)
     IN /\ result' = out.result
        /\ calls' = out.calls
  /\ call' = [op |-> "render", theme |-> i, resume |-> resume, now |-> now]
  /\ UNCHANGED <<objects, themes>>

NextEarlier ==
  \/ \E arg \in PipelineArgs : MakeThemeEarlier(arg)
  \/ \E i \in DOMAIN themes, resume \in EarlierResumes, now \in Clock :
       RenderEarlier(i, resume, now)

SpecEarlier == InitEarlier /\ [][NextEarlier]_vars

(***************************************************************************)
(* An exported primitive (escape, indent or formatPhone), applied to one   *)
(* string.                                                                 *)
(***************************************************************************)
\* The characters escape and indent tell apart, and one they do not.
TextChars == {"a", " ", "-", NL, "\\"}

Texts == UNION {[1..len -> TextChars] : len \in 0..MaxTextLen}

sFives == <<"5", "5", "5", "5", "5", "5", "5", "5", "5", "5">>
sPlusOneFives == <<"+", "1">> \o sFives

\* The digit that tells its position in the string.
PositionDigit(i) == <<"0", "1", "2", "3", "4", "5", "6", "7", "8", "9">>[(i % 10) + 1]

\* The strings over "+" and digits of each length: a "+" at any set of
\* positions, and at each other position the digit of that position.
PhoneTexts ==
  {sFives, sPlusOneFives}
    \cup UNION {{[i \in 1..len |-> IF i \in plus THEN "+" ELSE PositionDigit(i)] :
                  plus \in SUBSET (1..len)} : len \in 0..MaxPhoneLen}

PrimitiveCalls ==
  {[op |-> "escape", str |-> str] : str \in Texts \cup {Undefined}}
    \cup {[op |-> "indent", str |-> str] : str \in Texts}
    \cup {[op |-> "formatPhone", str |-> str] : str \in PhoneTexts}

InitPrimitives ==
  /\ Loaded
  /\ call \in PrimitiveCalls

CallEscape ==
  /\ call.op = "escape"
  /\ result.kind = "none"
  /\ result' = Returned(escape(call.str))
  /\ calls' = <<"escape">>
  /\ UNCHANGED <<objects, themes, call>>

CallIndent ==
  /\ call.op = "indent"
  /\ result.kind = "none"
  /\ result' = Returned(indent(call.str))
  /\ calls' = <<"indent">>
  /\ UNCHANGED <<objects, themes, call>>

CallFormatPhone ==
  /\ call.op = "formatPhone"
  /\ result.kind = "none"
  /\ result' = Returned(formatPhone(call.str))
  /\ calls' = <<"formatPhone">>
  /\ UNCHANGED <<objects, themes, call>>

\* escape applied to what escape returned, as renderWork and renderVolunteer
\* apply it to the label they have escaped.
CallEscapeAgain ==
  /\ call.op = "escape"
  /\ result.kind = "returned"
  /\ call' = [op |-> "escape", str |-> result.value]
  /\ result' = Returned(escape(result.value))
  /\ calls' = <<"escape">>
  /\ UNCHANGED <<objects, themes>>

NextPrimitives == CallEscape \/ CallEscapeAgain \/ CallIndent \/ CallFormatPhone

SpecPrimitives == InitPrimitives /\ [][NextPrimitives]_vars

(***************************************************************************)
(* The properties.                                                         *)
(***************************************************************************)
\* The last call was a call of a render function, and it has ended.
RenderEnded == call.op = "render" /\ result.kind \in {"returned", "threw"}

\* The last call was a call of a section renderer, and it has ended.
SectionEnded == call.op = "section" /\ result.kind \in {"returned", "threw"}

\* The options the i-th render function captured.
ThemeOptions(i) == objects[themes[i].ref]

RECURSIVE Lines(_)
\* The lines of a text: those before and those after the newline nearest to
\* its middle.
Lines(str) ==
  LET newlines == {i \in 1..Len(str) : str[i] = NL}
      Away(i) == IF 2 * i >= Len(str) THEN 2 * i - Len(str) ELSE Len(str) - 2 * i
  IN IF newlines = {} THEN <<str>>
     ELSE LET mid == CHOOSE i \in newlines : \A j \in newlines : Away(i) <= Away(j)
          IN Lines(SubSeq(str, 1, mid - 1)) \o Lines(SubSeq(str, mid + 1, Len(str)))

\* str holds part from position i on.
HoldsAt(str, part, i) ==
  /\ i + Len(part) - 1 <= Len(str)
  /\ \A j \in 1..Len(part) : str[i + j - 1] = part[j]

Holds(str, part) == \E i \in 1..Len(str) : HoldsAt(str, part, i)

RECURSIVE Concat(_)
Concat(seqs) == IF seqs = <<>> THEN <<>> ELSE seqs[1] \o Concat(Tail(seqs))

\* C1: validate is the first collaborator a render function invokes, and the
\* only one when it reports errors: the call then throws an Error whose message
\* holds every error description, in order, and returns no document.
C1_ValidationGating ==
  RenderEnded =>
    /\ Len(calls) >= 1 /\ calls[1] = "validate"
    /\ \A i \in 2..Len(calls) : calls[i] # "validate"
    /\ call.errors # <<>> =>
         /\ result.kind = "threw"
         /\ result.error = "Error"
         /\ calls = <<"validate">>
         /\ result.message[1] = "Invalid resume input: "
         /\ SelectSeq(Tail(result.message), LAMBDA t : t \notin {",", " "})
              = Concat(call.errors)

C1_Witness ==
  /\ RenderEnded
  /\ Len(call.errors) = 2
  /\ ThemeOptions(call.theme).renderHeader = "myHeader"
  /\ ThemeOptions(call.theme).sectionOptions # defaultSectionOptions
  /\ result.kind = "threw"

\* C2: with the default configuration, every call with a resume validate
\* reports no error for returns a non-empty document and throws nothing.
C2_OnlyInvalidInputThrows ==
  (RenderEnded /\ call.errors = <<>>) =>
    (result.kind = "returned" /\ result.value # <<>>)

\* C3: for a valid resume without basics the call returns a document that
\* holds the header placeholder and then the summary placeholder, right after
\* the begin-document marker.
C3_NoBasicsTolerated ==
  (RenderEnded /\ call.errors = <<>> /\ ~Has(call.resume, "basics")) =>
    /\ result.kind = "returned"
    /\ Holds(result.value,
             <<"\\begin{document}", NL,
               "%", " No header information found.", NL,
               "%", " Summary section omitted.", NL>>)

\* What each section's placeholder says after its "%".
OmissionText ==
  [work |-> " Work section omitted.",
   volunteer |-> " Volunteer section omitted.",
   education |-> " Education section omitted.",
   awards |-> " Awards section omitted.",
   publications |-> " Publications section omitted.",
   skills |-> " Skills section omitted.",
   languages |-> " Languages section omitted.",
   interests |-> " Interests section omitted.",
   references |-> " References section omitted.",
   projects |-> " Projects section omitted."]

\* C4: a section renderer called with absent data returns one line, a comment
\* that begins with "%", names the section and says it is omitted.
C4_AbsentIsPlaceholder ==
  (SectionEnded /\ ~call.data.def) =>
    /\ result.kind = "returned"
    /\ Len(Lines(result.value)) = 1
    /\ result.value[1] = "%"
    /\ Tail(result.value) = <<OmissionText[call.section]>>

C4_Witness ==
  /\ SectionEnded
  /\ ~call.data.def
  /\ call.section = "projects"

\* C5: a section renderer called with an empty array returns the section's
\* environment around an empty body, which differs from what it returns for
\* absent data.
C5_EmptyIsEnvironment ==
  (SectionEnded /\ call.data.def /\ call.data.val = <<>>) =>
    /\ result.kind = "returned"
    /\ Lines(result.value) = << <<"\\begin{", call.section, "}">>,
                                <<>>,
                                <<"\\end{", call.section, "}">> >>
    /\ result.value # callSection(call.fn, Absent, call.now)

C5_Witness ==
  /\ SectionEnded
  /\ call.data.def /\ call.data.val = <<>>
  /\ call.section = "skills"
  /\ result.kind = "returned"

\* The renderer registered for the i-th configured section applied to the
\* resume's field of that name; nothing for a name with no renderer.
ExpectedFragment(options, i) ==
  LET section == options.sections[i]
  IN IF section \in DOMAIN options.sectionOptions
       THEN callSection(options.sectionOptions[section].render,
                        GetArr(call.resume, section), call.now)
       ELSE <<>>

\* C6: the lines of a returned document are the document-class line with the
\* configured class, the preamble's lines, the begin-document line, the header's
\* lines, the summary's lines, the lines of one fragment per configured section
\* in the list's order, the end-document line and one empty line (the text ends
\* with a single newline); the renderers were invoked in that order.
C6_DocumentLayout ==
  (RenderEnded /\ result.kind = "returned") =>
    LET options == ThemeOptions(call.theme)
        registered == SelectSeq(options.sections,
                                LAMBDA s : s \in DOMAIN options.sectionOptions)
    IN /\ Lines(result.value) =
            << <<"\\documentclass{">> \o options.documentClass \o <<"}">> >>
              \o Lines(options.preamble)
              \o << <<"\\begin{document}">> >>
              \o Lines(callHeader(options.renderHeader, call.resume))
              \o Lines(callSummary(options.renderSummary,
                                   Get(call.resume.basics, "summary")))
              \o Concat([i \in 1..Len(options.sections) |->
                           Lines(ExpectedFragment(options, i))])
              \o << <<"\\end{document}">>, <<>> >>
       /\ calls = <<"validate", options.renderHeader, options.renderSummary>>
                    \o [i \in 1..Len(registered) |->
                          options.sectionOptions[registered[i]].render]

C6_Witness ==
  /\ RenderEnded
  /\ result.kind = "returned"
  /\ ThemeOptions(call.theme).sections = callerOptions.sections
  /\ ThemeOptions(call.theme).sectionOptions = defaultSectionOptions
  /\ Has(call.resume, "work")

\* The lines of an environment between its begin line and its end line.
Body(str) == SubSeq(Lines(str), 2, Len(Lines(str)) - 1)

\* line without the spaces it begins with
RECURSIVE Unindented(_)
Unindented(line) ==
  IF line # <<>> /\ line[1] = " " THEN Unindented(Tail(line)) ELSE line

IsItemLine(line) == Unindented(line) # <<>> /\ Unindented(line)[1] = "\\item"

\* The items of the array-valued sub-field of a record, if it has one.
SubItems(rec) ==
  IF Has(rec, "highlights") THEN rec.highlights
  ELSE IF Has(rec, "courses") THEN rec.courses
  ELSE <<>>

\* C7: the body of a rendered array section is the fragment of the first record,
\* then that of the second, and so on: one non-empty fragment per record, in the
\* array's order; and the item lines of a record with highlights or courses are
\* the items' lines in the sub-field's order.
C7_OrderPreserved ==
  (SectionEnded /\ call.data.def /\ call.data.val # <<>>) =>
    LET arr == call.data.val
        single(i) == callSection(call.fn, Some(<<arr[i]>>), call.now)
    IN /\ result.kind = "returned"
       /\ Body(result.value) = Concat([i \in 1..Len(arr) |-> Body(single(i))])
       /\ \A i \in 1..Len(arr) : Body(single(i)) # <<>>
       /\ \A i \in 1..Len(arr) :
            (Has(arr[i], "highlights") \/ Has(arr[i], "courses")) =>
              Map(SelectSeq(Body(single(i)), IsItemLine), Unindented)
                = [j \in 1..Len(SubItems(arr[i])) |->
                     <<"\\item", " ">> \o escape(SubItems(arr[i])[j])]

C7_Witness ==
  /\ SectionEnded
  /\ call.section = "work"
  /\ call.data.def
  /\ Len(call.data.val) = 3
  /\ call.data.val[1] # call.data.val[2]
  /\ call.data.val[2] # call.data.val[3]
  /\ call.data.val[1] # call.data.val[3]
  /\ Has(call.data.val[2], "highlights") /\ Len(call.data.val[2].highlights) = 3

\* The documented defaults of the options.
DocumentedDefaults ==
  [documentClass |-> <<"article">>,
   preamble |-> <<>>,
   renderHeader |-> "renderHeader",
   renderSummary |-> "renderSummary",
   sectionOptions |->
     [work |-> [render |-> "renderWork"],
      volunteer |-> [render |-> "renderVolunteer"],
      education |-> [render |-> "renderEducation"],
      awards |-> [render |-> "renderAwards"],
      publications |-> [render |-> "renderPublications"],
      skills |-> [render |-> "renderSkills"],
      languages |-> [render |-> "renderLanguages"],
      interests |-> [render |-> "renderInterests"],
      references |-> [render |-> "renderReferences"],
      projects |-> [render |-> "renderProjects"]],
   sections |-> <<"work", "volunteer", "education", "awards", "publications",
                  "skills", "languages", "interests", "references", "projects">>]

\* The value of option k a render function made with arg is to use.
ExpectedOption(arg, k) ==
  IF arg.def /\ k \in DOMAIN arg.val THEN arg.val[k] ELSE DocumentedDefaults[k]

\* C8: every render function captured, for each option, the caller's value if
\* the caller supplied the option and the documented default if not, and a call
\* of it uses them: the document-class line names that class, and the header and
\* summary renderers invoked are those.
C8_MergeFieldByField ==
  /\ \A i \in DOMAIN themes :
       /\ DOMAIN ThemeOptions(i) = OptionKeys
       /\ \A k \in OptionKeys : ThemeOptions(i)[k] = ExpectedOption(themes[i].arg, k)
  /\ (RenderEnded /\ result.kind = "returned") =>
       LET arg == themes[call.theme].arg
       IN /\ Lines(result.value)[1] =
               <<"\\documentclass{">> \o ExpectedOption(arg, "documentClass") \o <<"}">>
          /\ calls[2] = ExpectedOption(arg, "renderHeader")
          /\ calls[3] = ExpectedOption(arg, "renderSummary")

C8_Witness ==
  /\ RenderEnded
  /\ result.kind = "returned"
  /\ themes[call.theme].arg.def
  /\ DOMAIN themes[call.theme].arg.val = {"documentClass", "sections", "renderSummary"}

\* C9: defaultOptions always holds its initial values, and a render function
\* made by makeTheme() with no argument has exactly the documented defaults and
\* renders with them, whatever was made before it.
C9_DefaultsNeverModified ==
  /\ defaultOptions = DocumentedDefaults
  /\ \A i \in DOMAIN themes : ~themes[i].arg.def => ThemeOptions(i) = DocumentedDefaults
  /\ (RenderEnded /\ ~themes[call.theme].arg.def) =>
       result = renderFunction(DocumentedDefaults, call.resume, call.errors,
                               call.now).result

C9_Witness ==
  /\ Len(themes) = 3
  /\ themes[2].arg.def /\ DOMAIN themes[2].arg.val = OptionKeys
  /\ ~themes[3].arg.def
  /\ RenderEnded
  /\ call.theme = 3
  /\ result.kind = "returned"

\* What the i-th render function of the state with heap objs and render
\* functions ths returns or throws for an input.
OutcomeOf(objs, ths, i, input) ==
  renderFunction(objs[ths[i].ref], input.resume, input.errors, <<"today">>).result

\* What a render function made with arg is to return or throw for an input.
OutcomeFor(arg, input) ==
  renderFunction(ObjectAssign(DocumentedDefaults,
                              IF arg.def THEN arg.val ELSE DocumentedDefaults),
                 input.resume, input.errors, <<"today">>).result

\* A valid resume and an invalid one.
IsolationInputs ==
  {input \in PipelineInputs :
     Has(input.resume, "basics") /\ ~Has(input.resume, "work")}

\* C10: no step (a makeTheme call or a call of any render function) changes
\* what an existing render function returns for a resume, and after every step
\* each render function returns what its own options, the defaults and the
\* resume determine.
C10_RenderersIsolated ==
  [][/\ \A i \in DOMAIN themes : \A input \in IsolationInputs :
          OutcomeOf(objects', themes', i, input) = OutcomeOf(objects, themes, i, input)
     /\ \A i \in DOMAIN themes' : \A input \in IsolationInputs :
          OutcomeOf(objects', themes', i, input) = OutcomeFor(themes'[i].arg, input)
    ]_vars

C10_Witness ==
  /\ Len(themes) = 3
  /\ themes[2].arg.def /\ themes[3].arg.def
  /\ DOMAIN themes[2].arg.val = {"documentClass"}
  /\ DOMAIN themes[3].arg.val = OptionKeys
  /\ RenderEnded
  /\ call.theme = 2
  /\ result.kind = "returned"

\* C11: a section renderer called a second time on the same data returns the
\* text it returned the first time, whatever the records leave out.
C11_SameDataSameOutput ==
  [][(SectionEnded /\ call'.op = "section" /\ call'.fn = call.fn
        /\ call'.data = call.data)
       => result' = result]_vars

PrimitiveEnded(op) == call.op = op /\ result.kind = "returned"

\* C13 as stated: formatPhone("5555555555") is "(555) 555--5555" and
\* formatPhone("+15555555555") is "1 (555) 555--5555".
C13_PhoneExamplesAsStated ==
  PrimitiveEnded("formatPhone") =>
    /\ call.str = sFives =>
         result.value = <<"(", "5", "5", "5", ")", " ", "5", "5", "5", "-", "-",
                          "5", "5", "5", "5">>
    /\ call.str = sPlusOneFives =>
         result.value = <<"1", " ", "(", "5", "5", "5", ")", " ", "5", "5", "5",
                          "-", "-", "5", "5", "5", "5">>

\* C13, amended: formatPhone("5555555555") is "(555) 555--5555" and
\* formatPhone("+15555555555") is "+1 (555) 555--5555": the country code keeps
\* its "+".
C13_PhoneExamples ==
  PrimitiveEnded("formatPhone") =>
    /\ call.str = sFives =>
         result.value = <<"(", "5", "5", "5", ")", " ", "5", "5", "5", "-", "-",
                          "5", "5", "5", "5">>
    /\ call.str = sPlusOneFives =>
         result.value = <<"+", "1", " ", "(", "5", "5", "5", ")", " ", "5", "5", "5",
                          "-", "-", "5", "5", "5", "5">>

C13_Witness == PrimitiveEnded("formatPhone") /\ call.str = sPlusOneFives

\* The number of times the character c occurs in str.
Count(str, c) == Cardinality({i \in 1..Len(str) : str[i] = c})

\* C15: what escape returns holds no newline; it holds two backslashes (a
\* forced line break) more than its argument for each newline of the argument;
\* and escape of an absent or an empty value is the empty string.
C15_NoRawNewline ==
  PrimitiveEnded("escape") =>
    /\ Count(result.value, NL) = 0
    /\ (call.str = Undefined \/ call.str = <<>>) => result.value = <<>>
    /\ call.str # Undefined =>
         Count(result.value, "\\") = Count(call.str, "\\") + 2 * Count(call.str, NL)

C15_Witness ==
  /\ PrimitiveEnded("escape")
  /\ call.str = <<NL, " ", "-", " ", NL>>
  /\ Count(result.value, "\\") = 4

\* C19: formatPhone returns for every string over "+" and digits, of any
\* length.  A country code is extracted exactly when the string starts with "+"
\* or is longer than 10: it is the string without its last 10 characters.  The
\* last (at most 10) characters are formatted as "(AAA) BBB--CCCC", and the
\* result is the country code, a space and the formatted number if the country
\* code is not empty, the formatted number if it is.
C19_PhoneAlgorithm ==
  (call.op = "formatPhone" /\ result.kind # "none") =>
    LET phone == call.str
        n == Len(phone)
        extracted == (n > 0 /\ phone[1] = "+") \/ n > 10
        cut == IF extracted /\ n > 10 THEN n - 10 ELSE 0
        country == SubSeq(phone, 1, cut)
        number == SubSeq(phone, cut + 1, n)
        upTo(k) == IF k < Len(number) THEN k ELSE Len(number)
        formatted == <<"(">> \o SubSeq(number, 1, upTo(3)) \o <<")", " ">>
                       \o SubSeq(number, 4, upTo(6)) \o <<"-", "-">>
                       \o SubSeq(number, 7, upTo(10))
    IN /\ result.kind = "returned"
       /\ Len(number) <= 10
       /\ result.value = IF country # <<>> THEN country \o <<" ">> \o formatted
                          ELSE formatted

C19_Witness ==
  /\ PrimitiveEnded("formatPhone")
  /\ Len(call.str) = 11
  /\ call.str[1] # "+"
  /\ call.str[2] = "+"
  /\ result.value[1] = "1"

\* C20: indent returns as many lines as it is given, in their order: an empty
\* line as it is, and any other line after exactly two spaces; indent of the
\* empty string is the empty string.
C20_IndentLines ==
  PrimitiveEnded("indent") =>
    LET before == Lines(call.str)
        after == Lines(result.value)
    IN /\ Len(after) = Len(before)
       /\ \A i \in 1..Len(before) :
            after[i] = IF before[i] = <<>> THEN <<>> ELSE <<" ", " ">> \o before[i]
       /\ call.str = <<>> => result.value = <<>>

C20_Witness ==
  /\ PrimitiveEnded("indent")
  /\ call.str = <<"a", NL, NL, " ", "a">>
  /\ result.value = <<" ", " ", "a", NL, NL, " ", " ", " ", "a">>

\* C14: a call with a resume that has basics and that validate reports no
\* error for returns a document, whatever names the configured list holds: the
\* renderers invoked are those registered for the names of the list, in its
\* order, and a name with no registered renderer contributes an empty line.
C14_UnregisteredSkipped ==
  (RenderEnded /\ call.errors = <<>> /\ Has(call.resume, "basics")) =>
    LET options == ThemeOptions(call.theme)
        registered == SelectSeq(options.sections,
                                LAMBDA s : s \in DOMAIN options.sectionOptions)
    IN /\ result.kind = "returned"
       /\ SubSeq(calls, 4, Len(calls))
            = [i \in 1..Len(registered) |-> options.sectionOptions[registered[i]].render]
       /\ Holds(result.value,
                <<NL>> \o Join([i \in 1..Len(options.sections) |->
                                  ExpectedFragment(options, i)], <<NL>>)
                  \o <<NL, "\\end{document}", NL>>)

\* The property of a record that is its primary label, for the record types
\* that have a URL.
LabelKey ==
  [work |-> "name", volunteer |-> "organization", publications |-> "name",
   projects |-> "name"]

\* The begin line of the first record's environment in a rendered section.
RecordBeginLine(str) == Unindented(Body(str)[1])

\* C16: the begin line of a work, volunteer, publication or project record
\* with a label holds \href{URL}{escape(label)}, the URL as it was given, if
\* the record has a URL; it begins with the escaped label and holds no \href
\* if not.
C16_UrlVerbatim ==
  (SectionEnded /\ call.section \in DOMAIN LabelKey /\ call.data.def
     /\ Len(call.data.val) = 1 /\ Has(call.data.val[1], LabelKey[call.section])) =>
    LET rec == call.data.val[1]
        label == escape(rec[LabelKey[call.section]])
        line == RecordBeginLine(result.value)
    IN IF Has(rec, "url")
         THEN Holds(line, <<"\\href{">> \o rec.url \o <<"}", "{">> \o label \o <<"}">>)
         ELSE /\ ~Holds(line, <<"\\href{">>)
              /\ HoldsAt(line, <<"{">> \o label, 4)

RECURSIVE GroupEnd(_, _, _)
\* The position of the "}" that closes the group open at position i of line,
\* with depth groups open inside it.
GroupEnd(line, i, depth) ==
  IF line[i] = "}"
    THEN IF depth = 0 THEN i ELSE GroupEnd(line, i + 1, depth - 1)
  ELSE IF line[i] \in {"{", "\\href{"} THEN GroupEnd(line, i + 1, depth + 1)
  ELSE GroupEnd(line, i + 1, depth)

RECURSIVE Groups(_)
\* The contents of the consecutive braced groups line is made of.
Groups(line) ==
  IF line = <<>> \/ line[1] # "{" THEN <<>>
  ELSE LET end == GroupEnd(line, 2, 0)
       IN <<SubSeq(line, 2, end - 1)>> \o Groups(SubSeq(line, end + 1, Len(line)))

\* The arguments on a begin line, after \begin{env}.
Arguments(line) == Groups(SubSeq(line, 4, Len(line)))

\* The fields of a record each argument of its environment is made from.
ArgumentFields ==
  [work |-> <<{"name"}, {"position"}, {"startDate", "endDate"}, {"location"}>>,
   volunteer |-> <<{"organization"}, {"position"}, {"startDate", "endDate"},
                   {"location"}>>,
   education |-> <<{"institution"}, {"studyType", "area"}, {"startDate", "endDate"},
                   {"gpa"}>>,
   awards |-> <<{"title"}, {"date"}, {"awarder"}>>,
   publications |-> <<{"name"}, {"publisher"}, {"releaseDate"}>>,
   projects |-> <<{"name"}, {"roles"}, {"startDate", "endDate"}, {"entity"}>>]

\* arg holds the text of the record's field.
HoldsField(arg, rec, field) ==
  IF field = "roles" THEN \A i \in 1..Len(rec.roles) : Holds(arg, escape(rec.roles[i]))
  ELSE Holds(arg, escape(rec[field]))

\* C17: the begin line of a record's environment is \begin{env} and then as
\* many braced groups as the record type has arguments, and the k-th group
\* holds the text of the fields the k-th argument is made from: job = (name,
\* position, dates, location), position = (organization, position, dates,
\* location), school = (institution, degree, dates, GPA), award = (title, date,
\* awarder), publication = (name, publisher, date), project = (name, roles,
\* dates, entity), whichever of the fields the record has.
C17_ArgumentOrder ==
  (SectionEnded /\ call.section \in DOMAIN ArgumentFields /\ call.data.def
     /\ call.data.val # <<>>) =>
    LET rec == call.data.val[1]
        fields == ArgumentFields[call.section]
        line == RecordBeginLine(result.value)
        args == Arguments(line)
    IN /\ line[1] = "\\begin{" /\ line[3] = "}"
       /\ Len(args) = Len(fields)
       /\ Len(line) = 3 + 2 * Len(args) + Len(Concat(args))
       /\ \A k \in 1..Len(fields) : \A field \in fields[k] \cap DOMAIN rec :
            HoldsField(args[k], rec, field)

C17_Witness ==
  /\ SectionEnded
  /\ call.section = "awards"
  /\ call.data.def /\ call.data.val # <<>>
  /\ call.data.val[1] = SampleRecords.awards[1]
  /\ Arguments(RecordBeginLine(result.value))
       = <<sAcme, <<"LL(", "2018-01-01", ")">>, <<"w">> >>

\* C18: the exported render function, and one made with no options, return for
\* the resume that holds only basics.name = "Jane Doe" a document whose body
\* is the header environment around the name line, the summary placeholder,
\* and the omission placeholders of the ten sections in the default order.
C18_MinimalResume ==
  (RenderEnded /\ call.errors = <<>>
     /\ call.resume = [basics |-> [name |-> sJane]]
     /\ themes[call.theme].arg \in {Absent, Some([preamble |-> packagedPreamble])}) =>
    /\ result.kind = "returned"
    /\ Holds(result.value,
             <<NL, "\\begin{document}", NL,
               "\\begin{", "header", "}", NL,
               " ", " ", "\\name{", "J", "a", "n", "e", " ", "D", "o", "e", "}", NL,
               "\\end{", "header", "}", NL,
               "%", " Summary section omitted.", NL,
               "%", " Work section omitted.", NL,
               "%", " Volunteer section omitted.", NL,
               "%", " Education section omitted.", NL,
               "%", " Awards section omitted.", NL,
               "%", " Publications section omitted.", NL,
               "%", " Skills section omitted.", NL,
               "%", " Languages section omitted.", NL,
               "%", " Interests section omitted.", NL,
               "%", " References section omitted.", NL,
               "%", " Projects section omitted.", NL,
               "\\end{document}", NL>>)

C18_Witness ==
  /\ RenderEnded
  /\ call.errors = <<>>
  /\ call.resume = [basics |-> [name |-> sJane]]
  /\ call.theme = 1
  /\ result.kind = "returned"

\* C21: the date-range argument of a work, volunteer, education or project
\* record is the formatter's text for the start date, then "--", then the
\* formatter's text for the end date if the record has one and the literal
\* "Present" if it has none.
C21_DateRange ==
  (SectionEnded /\ call.section \in {"work", "volunteer", "education", "projects"}
     /\ call.data.def /\ call.data.val # <<>>) =>
    LET rec == call.data.val[1]
        range == Arguments(RecordBeginLine(result.value))[3]
        start == formatDate(Get(rec, "startDate"), call.now)
        end == SubSeq(range, Len(start) + 3, Len(range))
    IN /\ SubSeq(range, 1, Len(start) + 2) = start \o <<"-", "-">>
       /\ IF Has(rec, "endDate")
            THEN end = formatDate(rec.endDate, call.now) /\ end # <<"Present">>
            ELSE end = <<"Present">>

C21_Witness ==
  /\ SectionEnded
  /\ call.section = "work"
  /\ call.data.def /\ Len(call.data.val) = 2
  /\ Has(call.data.val[1], "startDate") /\ ~Has(call.data.val[1], "endDate")
  /\ Has(call.data.val[2], "endDate")
  /\ Holds(result.value, <<"-", "-", "Present", "}">>)

\* The literal each record type renders for a label that is not given.
LabelFallback ==
  [work |-> "Untitled", volunteer |-> "Undisclosed", publications |-> "Untitled",
   projects |-> "Untitled", references |-> "Undisclosed name"]

\* The property of a record that is its label, references included.
NameKey ==
  [work |-> "name", volunteer |-> "organization", publications |-> "name",
   projects |-> "name", references |-> "name"]

\* Where the first record of a rendered section shows its label: the first
\* argument of its environment, or the argument of \reference.
ShownLabel(section, str) ==
  IF section = "references"
    THEN LET line == RecordBeginLine(str)
         IN SubSeq(line, 2, GroupEnd(line, 2, 0) - 1)
    ELSE Arguments(RecordBeginLine(str))[1]

\* C22: a work, publication or project record without a name shows
\* "Untitled", a volunteer record without an organization "Undisclosed", a
\* reference without a name "Undisclosed name"; a record with the field shows
\* the field's escaped value and not the literal.
C22_NameFallback ==
  (SectionEnded /\ call.section \in DOMAIN NameKey /\ call.data.def
     /\ call.data.val # <<>>) =>
    LET rec == call.data.val[1]
        shown == ShownLabel(call.section, result.value)
    IN IF Has(rec, NameKey[call.section])
         THEN /\ Holds(shown, escape(rec[NameKey[call.section]]))
              /\ ~Holds(shown, <<LabelFallback[call.section]>>)
         ELSE Holds(shown, <<LabelFallback[call.section]>>)

C22_Witness ==
  /\ SectionEnded
  /\ call.section = "references"
  /\ call.data.def /\ Len(call.data.val) = 2
  /\ ~Has(call.data.val[1], "name")
  /\ Has(call.data.val[2], "name")

\* The array-valued sub-field of each record type and its environment.
SubField ==
  [work |-> "highlights", volunteer |-> "highlights", projects |-> "highlights",
   education |-> "courses"]

SubEnvironment ==
  [work |-> "jobhighlights", volunteer |-> "positionhighlights",
   projects |-> "projecthighlights", education |-> "courses"]

\* The positions of the lines of a sequence of lines that are the given line.
LinesAt(lines, line) == {i \in 1..Len(lines) : lines[i] = line}

\* C23: the fragment of a work, volunteer, project or education record holds
\* the sub-environment of its highlights or courses exactly when the record has
\* the sub-field: no begin line, no end line and no item line if it has not;
\* one begin line, then one "\item escape(item)" line per item in order (one
\* empty line for an empty array), then the end line if it has.
C23_SubEnvironment ==
  (SectionEnded /\ call.section \in DOMAIN SubField /\ call.data.def
     /\ Len(call.data.val) = 1) =>
    LET rec == call.data.val[1]
        lines == Map(Body(result.value), Unindented)
        begins == LinesAt(lines, <<"\\begin{", SubEnvironment[call.section], "}">>)
        ends == LinesAt(lines, <<"\\end{", SubEnvironment[call.section], "}">>)
    IN IF ~Has(rec, SubField[call.section])
         THEN begins = {} /\ ends = {} /\ SelectSeq(lines, IsItemLine) = <<>>
         ELSE /\ Cardinality(begins) = 1 /\ Cardinality(ends) = 1
              /\ LET b == CHOOSE i \in begins : TRUE
                     e == CHOOSE i \in ends : TRUE
                     items == rec[SubField[call.section]]
                 IN SubSeq(lines, b + 1, e - 1) =
                      IF items = <<>> THEN << <<>> >>
                      ELSE [j \in 1..Len(items) |->
                              <<"\\item", " ">> \o escape(items[j])]

C23_Witness ==
  /\ SectionEnded
  /\ call.section = "education"
  /\ call.data.def /\ Len(call.data.val) = 1
  /\ Has(call.data.val[1], "courses") /\ call.data.val[1].courses = <<>>

\* The lines of the header environment's body in a document, unindented.
HeaderLines(str) ==
  LET lines == Lines(str)
      b == CHOOSE i \in 1..Len(lines) : lines[i] = <<"\\begin{", "header", "}">>
      e == CHOOSE i \in 1..Len(lines) : lines[i] = <<"\\end{", "header", "}">>
  IN Map(SubSeq(lines, b + 1, e - 1), Unindented)

\* The macro of each header field, in the order of the header's lines.
HeaderMacros ==
  <<"\\name{", "\\personallabel{", "\\location{", "\\email{", "\\phone{",
    "\\website{">>

\* The header field of the macro is present in basics.
HeaderFieldPresent(basics, macro) ==
  CASE macro = "\\name{" -> Has(basics, "name")
    [] macro = "\\personallabel{" -> Has(basics, "label")
    [] macro = "\\location{" ->
         /\ Has(basics, "location")
         /\ {"address", "city", "postalCode"} \subseteq DOMAIN basics.location
    [] macro = "\\email{" -> Has(basics, "email")
    [] macro = "\\phone{" -> Has(basics, "phone")
    [] macro = "\\website{" -> Has(basics, "website")

\* C24: the header of a resume with basics has one line for each field that
\* is present and none for a field that is absent, in the order name, label,
\* location, email, phone, website, the location counting as present only with
\* address, city and postal code; the phone line is \phone{cleaned}{formatted}
\* where cleaned is the phone without the characters that are neither "+" nor
\* digits and formatted is formatPhone of cleaned.
C24_HeaderLines ==
  (RenderEnded /\ result.kind = "returned" /\ Has(call.resume, "basics")) =>
    LET basics == call.resume.basics
        expected == SelectSeq(HeaderMacros, LAMBDA m : HeaderFieldPresent(basics, m))
        lines == HeaderLines(result.value)
        cleaned == SelectSeq(basics.phone, LAMBDA c : c \in PhoneChars)
    IN /\ IF expected = <<>> THEN lines = << <<>> >>
          ELSE /\ Len(lines) = Len(expected)
               /\ \A i \in 1..Len(lines) : lines[i][1] = expected[i]
       /\ Has(basics, "phone") =>
            \E i \in 1..Len(lines) :
              lines[i] = <<"\\phone{">> \o cleaned \o <<"}", "{">>
                           \o formatPhone(cleaned) \o <<"}">>

C24_Witness ==
  /\ RenderEnded
  /\ result.kind = "returned"
  /\ Has(call.resume, "basics")
  /\ DOMAIN call.resume.basics = {"label", "phone", "location"}
  /\ Len(HeaderLines(result.value)) = 2

\* C25: a render function made with a sectionOptions map of the caller's and
\* the default list of sections looks every section up in the caller's map
\* alone: the renderers invoked are those the caller's map holds for names of
\* the list, in the list's order, and a default section the map does not hold
\* contributes an empty line and is rendered by no renderer.
C25_SectionOptionsReplaced ==
  (RenderEnded /\ result.kind = "returned" /\ themes[call.theme].arg.def
     /\ Has(themes[call.theme].arg.val, "sectionOptions")
     /\ ~Has(themes[call.theme].arg.val, "sections")) =>
    LET given == themes[call.theme].arg.val.sectionOptions
        held == SelectSeq(DocumentedDefaults.sections, LAMBDA s : s \in DOMAIN given)
        fragment(s) == IF s \in DOMAIN given
                         THEN callSection(given[s].render, GetArr(call.resume, s),
                                          call.now)
                         ELSE <<>>
    IN /\ ThemeOptions(call.theme).sectionOptions = given
       /\ SubSeq(calls, 4, Len(calls)) = [i \in 1..Len(held) |-> given[held[i]].render]
       /\ Holds(result.value,
                <<NL>> \o Join(Map(DocumentedDefaults.sections, fragment), <<NL>>)
                  \o <<NL, "\\end{document}", NL>>)

C25_Witness ==
  /\ RenderEnded
  /\ result.kind = "returned"
  /\ themes[call.theme].arg.def
  /\ DOMAIN themes[call.theme].arg.val = {"sectionOptions"}
  /\ Has(call.resume, "work")
  /\ calls = <<"validate", "renderHeader", "renderSummary", "myWork", "renderSkills">>

\* C26: no fragment a section renderer returns holds the text "undefined",
\* whichever optional fields its records leave out.
C26_NoUndefinedText ==
  (SectionEnded /\ call.data.def) => ~Holds(result.value, <<"undefined">>)

\* escape was applied to what the call before returned, and has returned.
EscapedAgain ==
  /\ call.op = "escape" /\ result.kind = "returned"
  /\ call'.op = "escape" /\ result'.kind = "returned"
  /\ call'.str = result.value

\* C27 as stated: escape applied to what escape returned returns it unchanged.
C27_EscapeIdempotent == [][EscapedAgain => result'.value = result.value]_vars

\* C27, amended: escape applied to what escape returned returns it unchanged
\* exactly when the first result holds no " - " (it never holds a newline);
\* that is so whenever the string escape was first given holds no "-".
C27_EscapeIdempotentWithoutDash ==
  [][EscapedAgain =>
       /\ (result'.value = result.value) <=> ~Holds(result.value, <<" ", "-", " ">>)
       /\ (call.str # Undefined /\ Count(call.str, "-") = 0) =>
            result'.value = result.value
    ]_vars

C27_Witness ==
  /\ PrimitiveEnded("escape")
  /\ call.str = <<"a", " ", "-", " ", "\\", "\\", " ">>
  /\ result.value = <<"a", " ", "-", "-", "-", " ", "\\", "\\", " ">>

\* The tokens that begin or end an environment.
BeginTokens == {"\\begin{", "\\begin{document}"}

EndTokens == {"\\end{", "\\end{document}"}

IsMarkerLine(line) ==
  Unindented(line) # <<>> /\ Unindented(line)[1] \in BeginTokens \cup EndTokens

\* The marker a marker line holds: whether it opens, and the environment.
MarkerOf(line) ==
  LET text == Unindented(line)
  IN [open |-> text[1] \in BeginTokens,
      env |-> IF text[1] \in {"\\begin{document}", "\\end{document}"}
                THEN "document" ELSE text[2]]

\* The markers of a text, in order.
Markers(str) == Map(SelectSeq(Lines(str), IsMarkerLine), MarkerOf)

\* The environment each environment is to lie directly inside.
EnvironmentParent ==
  [header |-> "document", work |-> "document", volunteer |-> "document",
   education |-> "document", awards |-> "document", publications |-> "document",
   skills |-> "document", languages |-> "document", interests |-> "document",
   references |-> "document", projects |-> "document",
   job |-> "work", position |-> "volunteer", school |-> "education",
   award |-> "awards", publication |-> "publications", project |-> "projects",
   jobhighlights |-> "job", positionhighlights |-> "position", courses |-> "school",
   projecthighlights |-> "project"]

RECURSIVE WellNested(_, _)
\* The markers are balanced and nested, with open the environments that are
\* open before them (the last opened first): each end marker closes the last
\* opened environment, each begin marker opens an environment inside its
\* parent, and nothing is left open.
WellNested(markers, open) ==
  IF markers = <<>> THEN open = <<>>
  ELSE LET m == markers[1]
       IN IF m.open
            THEN /\ IF m.env = "document" THEN open = <<>>
                    ELSE /\ open # <<>>
                         /\ m.env \in DOMAIN EnvironmentParent
                         /\ open[1] = EnvironmentParent[m.env]
                 /\ WellNested(Tail(markers), <<m.env>> \o open)
            ELSE /\ open # <<>>
                 /\ open[1] = m.env
                 /\ WellNested(Tail(markers), Tail(open))

\* C28: in a document the exported render function returns, every begin or
\* end marker starts a line, every \begin{X} is closed by \end{X} with the
\* environments opened after it closed before it, the document environment is
\* the outermost one, every section environment lies directly inside it, every
\* record environment inside its section's and every list of highlights or
\* courses inside its record's.
C28_WellNested ==
  (RenderEnded /\ result.kind = "returned") =>
    /\ Cardinality({i \in 1..Len(result.value) :
                      result.value[i] \in BeginTokens \cup EndTokens})
         = Len(Markers(result.value))
    /\ WellNested(Markers(result.value), <<>>)

C28_Witness ==
  /\ RenderEnded
  /\ result.kind = "returned"
  /\ \A section \in Sections :
       Has(call.resume, section) /\ Len(call.resume[section]) = 3
  /\ Len(Markers(result.value)) = 74

\* C29: every render function the earlier makeTheme returned returns or
\* throws what its own options over the original defaults determine: one made
\* with no options renders with the documented defaults whatever was made
\* before it, and one made before a later makeTheme call renders as it did.
C29_EarlierNoLeak ==
  RenderEnded =>
    LET arg == themes[call.theme].arg
    IN result = earlierRenderFunction(
                  ObjectAssign(DocumentedDefaults,
                               IF arg.def THEN arg.val ELSE DocumentedDefaults),
                  call.resume, call.now).result

====
